---------------------------- MODULE Spec2Model ----------------------------
(***************************************************************************)
(* State-machine model of platformer_game.py: the main loop (Game.run),    *)
(* event dispatch (Game.events), the simulation step (Game.update with     *)
(* Player.update, Platform.update, Enemy.update), the death procedure      *)
(* (Game.player_die) and the level builder (Game.create_level).            *)
(*                                                                         *)
(* Vector2 components (pos, vel, acc) are floats in the program.  They are *)
(* kept here in fixed point, in units of 1/Scale pixel.  Gravity, the jump *)
(* impulse, the acceleration and every rect coordinate are exact in these  *)
(* units; the friction product vel.x * -0.12 and the half step 0.5 * acc.x *)
(* are truncated to the unit.  Rect coordinates are integers, as in pygame.*)
(***************************************************************************)
EXTENDS Integers, Sequences, FiniteSets, TLC

\* ------------------------------------------------------------ constants
Scale == 1000000
SCREEN_WIDTH == 800
SCREEN_HEIGHT == 600
PLAYER_ACC == (5 * Scale) \div 10
PLAYER_GRAVITY == (8 * Scale) \div 10
PLAYER_JUMP == -16 * Scale
MENU == 0
PLAYING == 1
GAME_OVER == 2
WIN == 3

\* ------------------------------------------------------------ arithmetic
Abs(v) == IF v < 0 THEN -v ELSE v

\* C-style integer division, truncating toward zero
TruncDiv(a, b) == IF a >= 0 THEN a \div b ELSE -((-a) \div b)

\* float -> int conversion done when a Vector2 is assigned to a Rect attribute
ToInt(v) == TruncDiv(v, Scale)

\* vel.x * PLAYER_FRICTION, PLAYER_FRICTION = -0.12
Friction(vx) == -TruncDiv(vx * 12, 100)

\* 0.5 * acc component
Half(a) == TruncDiv(a, 2)


\* ------------------------------------------------------------ geometry
Rect(x, y, w, h) == [x |-> x, y |-> y, w |-> w, h |-> h]

\* pygame.Rect.colliderect: overlap of two rectangles of positive size
colliderect(a, b) ==
    /\ a.x < b.x + b.w
    /\ a.y < b.y + b.h
    /\ a.x + a.w > b.x
    /\ a.y + a.h > b.y

\* rect.midbottom = pos: both coordinates converted to int, then
\* x = centerx - w / 2 and y = bottom - h
SetMidbottom(r, pos) ==
    [r EXCEPT !.x = ToInt(pos.x) - (r.w \div 2), !.y = ToInt(pos.y) - r.h]

\* pygame.sprite.spritecollide(sprite, group, dokill): the indices, in group
\* order, of the group's sprites whose rect overlaps r
spritecollide(r, group) ==
    SelectSeq([i \in 1..Len(group) |-> i], LAMBDA i : colliderect(r, group[i].rect))

\* ------------------------------------------------------------ entities
Vec(x, y) == [x |-> x, y |-> y]

StartPos == Vec(100 * Scale, (SCREEN_HEIGHT - 200) * Scale)

\* Player.__init__ : the rect is centred on the screen until the first
\* Player.update; acc, facing_right and on_ground are never read and are left out
NewPlayer ==
    [pos |-> StartPos,
     vel |-> Vec(0, 0),
     rect |-> Rect(SCREEN_WIDTH \div 2 - 15, SCREEN_HEIGHT \div 2 - 20, 30, 40),
     jumping |-> FALSE,
     lives |-> 3]

\* Platform.__init__
NewPlatform(x, y, width, height, is_moving, move_range, move_speed) ==
    [rect |-> Rect(x, y, width, height),
     is_moving |-> is_moving,
     move_range |-> move_range,
     move_speed |-> move_speed,
     start_pos |-> x,
     direction |-> 1]

\* Enemy.__init__ (speed defaults to 1 at every call site)
NewEnemy(x, y, patrol_range) ==
    [rect |-> Rect(x, y, 30, 30),
     patrol_range |-> patrol_range,
     speed |-> 1,
     start_pos |-> x,
     direction |-> 1]

\* Coin.__init__
NewCoin(x, y) == [rect |-> Rect(x, y, 15, 15)]

\* Platform.update
Platform_update(p) ==
    IF p.is_moving
    THEN LET x == p.rect.x + p.move_speed * p.direction
         IN [p EXCEPT !.rect.x = x,
                      !.direction = IF Abs(x - p.start_pos) > p.move_range
                                    THEN -p.direction ELSE p.direction]
    ELSE p

\* Enemy.update
Enemy_update(e) ==
    LET x == e.rect.x + e.speed * e.direction
    IN [e EXCEPT !.rect.x = x,
                 !.direction = IF Abs(x - e.start_pos) > e.patrol_range
                               THEN -e.direction ELSE e.direction]

\* ------------------------------------------------------------ level builder
\* the literal tables of Game.create_level; a platform tuple of length 7 is moving
platform_list(level) ==
    IF level = 1
    THEN << <<0, SCREEN_HEIGHT - 40, SCREEN_WIDTH, 40>>,
            <<100, 400, 150, 20>>,
            <<300, 300, 100, 20>>,
            <<500, 200, 150, 20>>,
            <<250, 120, 100, 20>>,
            <<650, 350, 100, 20, TRUE, 100, 1>> >>
    ELSE << <<0, SCREEN_HEIGHT - 40, SCREEN_WIDTH, 40>>,
            <<100, 450, 100, 20>>,
            <<300, 350, 100, 20>>,
            <<500, 250, 100, 20>>,
            <<200, 150, 100, 20>>,
            <<400, 100, 100, 20>>,
            <<600, 150, 100, 20>>,
            <<100, 250, 100, 20, TRUE, 150, 2>> >>

enemy_list(level) ==
    IF level = 1
    THEN << <<300, 280, 80>>, <<500, 180, 100>> >>
    ELSE << <<300, 330, 80>>, <<500, 230, 80>>, <<200, 130, 80>>, <<600, 130, 80>> >>

coin_list(level) ==
    IF level = 1
    THEN << <<130, 370>>, <<330, 270>>, <<530, 170>>, <<280, 90>>, <<680, 320>> >>
    ELSE << <<130, 420>>, <<330, 320>>, <<530, 220>>, <<230, 120>>, <<430, 70>>,
            <<630, 120>>, <<130, 220>> >>

\* Game.create_level: the ground platform, then the platforms of the table
\* (whose first entry is the ground again), the enemies and the coins
create_level(level) ==
    LET pl == platform_list(level)
        el == enemy_list(level)
        cl == coin_list(level)
        ground == NewPlatform(0, SCREEN_HEIGHT - 40, SCREEN_WIDTH, 40, FALSE, 0, 0)
        mk(tp) == IF Len(tp) > 5
                 THEN NewPlatform(tp[1], tp[2], tp[3], tp[4], tp[5], tp[6], tp[7])
                 ELSE NewPlatform(tp[1], tp[2], tp[3], tp[4], FALSE, 0, 0)
    IN [platforms |-> <<ground>> \o [i \in 1..Len(pl) |-> mk(pl[i])],
        enemies |-> [i \in 1..Len(el) |-> NewEnemy(el[i][1], el[i][2], el[i][3])],
        coins |-> [i \in 1..Len(cl) |-> NewCoin(cl[i][1], cl[i][2])]]

\* ------------------------------------------------------------ observations
\* What the last step did, recorded for the properties below: the handler that
\* ran (op); for a jump request whether it was honored and the flag before it;
\* for an update the number of player_die calls, whether the fall check fired,
\* the platform landing resolution chose (landed, 0 for none), the position
\* after integration (x0 before the wrap, y0) and the velocity after
\* integration (vy), and the number of coins removed; for the runs of
\* Platform.update alone the direction changes of the moving platform so far.
NoObs ==
    [op |-> "init", honored |-> FALSE, was_jumping |-> FALSE, deaths |-> 0,
     fell |-> FALSE, landed |-> 0, x0 |-> 0, y0 |-> 0, vy |-> 0, taken |-> 0,
     flips |-> 0]

Obs(op) == [NoObs EXCEPT !.op = op]

\* ------------------------------------------------------------ simulation
\* The operators below take and return the game as a record g with the fields
\* game_state, score, player, platforms, enemies, coins and obs.

\* faulty variant of player_die: the respawn also clears the jumping flag
player_die_ClearJump(g) ==
    LET lives == g.player.lives - 1
        g1 == [g EXCEPT !.player.lives = lives, !.obs.deaths = @ + 1]
    IN IF lives <= 0
       THEN [g1 EXCEPT !.game_state = GAME_OVER]
       ELSE [g1 EXCEPT !.player.pos = StartPos, !.player.vel = Vec(0, 0),
                       !.player.jumping = FALSE]

\* faulty variant of player_die: the player is not moved to the start position
player_die_NoRespawn(g) ==
    LET lives == g.player.lives - 1
        g1 == [g EXCEPT !.player.lives = lives, !.obs.deaths = @ + 1]
    IN IF lives <= 0
       THEN [g1 EXCEPT !.game_state = GAME_OVER]
       ELSE [g1 EXCEPT !.player.vel = Vec(0, 0)]

\* faulty variant of player_die: the respawn also resets the score
player_die_ResetScore(g) ==
    LET lives == g.player.lives - 1
        g1 == [g EXCEPT !.player.lives = lives, !.obs.deaths = @ + 1]
    IN IF lives <= 0
       THEN [g1 EXCEPT !.game_state = GAME_OVER]
       ELSE [g1 EXCEPT !.player.pos = StartPos, !.player.vel = Vec(0, 0), !.score = 0]

\* faulty variant of player_die: the game ends only below zero lives
player_die_Negative(g) ==
    LET lives == g.player.lives - 1
        g1 == [g EXCEPT !.player.lives = lives, !.obs.deaths = @ + 1]
    IN IF lives < 0
       THEN [g1 EXCEPT !.game_state = GAME_OVER]
       ELSE [g1 EXCEPT !.player.pos = StartPos, !.player.vel = Vec(0, 0)]

\* Game.player_die
player_die(g) ==
    LET lives == g.player.lives - 1
        g1 == [g EXCEPT !.player.lives = lives, !.obs.deaths = @ + 1]
    IN IF lives <= 0
       THEN [g1 EXCEPT !.game_state = GAME_OVER]
       ELSE [g1 EXCEPT !.player.pos = StartPos, !.player.vel = Vec(0, 0)]

\* the ground probe of Player.jump: platforms overlapping the rect moved down by 1
JumpProbe(rect, platforms) == spritecollide([rect EXCEPT !.y = @ + 1], platforms)

\* faulty variant of Player.jump: the jumping flag is not tested
Player_jump_Double(g) ==
    LET hits == JumpProbe(g.player.rect, g.platforms)
        g1 == [g EXCEPT !.obs.was_jumping = g.player.jumping]
    IN IF hits # <<>>
       THEN [g1 EXCEPT !.player.jumping = TRUE,
                       !.player.vel.y = PLAYER_JUMP,
                       !.obs.honored = TRUE]
       ELSE g1

\* Player.jump
Player_jump(g) ==
    LET hits == JumpProbe(g.player.rect, g.platforms)
        g1 == [g EXCEPT !.obs.was_jumping = g.player.jumping]
    IN IF hits # <<>> /\ ~g.player.jumping
       THEN [g1 EXCEPT !.player.jumping = TRUE,
                       !.player.vel.y = PLAYER_JUMP,
                       !.obs.honored = TRUE]
       ELSE g1

\* faulty variant of the wrap: the left edge is not wrapped
WrapX_NoLeft(px) == IF px > SCREEN_WIDTH * Scale THEN 0 ELSE px

\* faulty variant of the wrap: the two comparisons include the screen edges
WrapX_Inclusive(px) ==
    LET a == IF px >= SCREEN_WIDTH * Scale THEN 0 ELSE px
    IN IF a <= 0 THEN SCREEN_WIDTH * Scale ELSE a

\* the two wrap statements of Player.update, in their order
WrapX(px) ==
    LET a == IF px > SCREEN_WIDTH * Scale THEN 0 ELSE px
    IN IF a < 0 THEN SCREEN_WIDTH * Scale ELSE a

\* Player.update; keys is the set of arrow keys held ("L", "R")
Player_update(g, keys) ==
    LET pl == g.player
        ax0 == IF "R" \in keys THEN PLAYER_ACC
               ELSE IF "L" \in keys THEN -PLAYER_ACC ELSE 0
        ax == ax0 + Friction(pl.vel.x)
        ay == PLAYER_GRAVITY
        vx1 == pl.vel.x + ax
        vx == IF Abs(vx1) < Scale \div 10 THEN 0 ELSE vx1
        vy == pl.vel.y + ay
        px == pl.pos.x + vx + Half(ax)
        py == pl.pos.y + vy + Half(ay)
        pos == Vec(WrapX(px), py)
        rect == SetMidbottom(pl.rect, pos)
        g1 == [g EXCEPT !.player.vel = Vec(vx, vy),
                        !.player.pos = pos,
                        !.player.rect = rect,
                        !.obs.x0 = px, !.obs.y0 = py, !.obs.vy = vy]
    IN IF rect.y > SCREEN_HEIGHT
       THEN player_die([g1 EXCEPT !.obs.fell = TRUE])
       ELSE g1

\* rect.centery and rect.bottom
centery(r) == r.y + r.h \div 2
bottom(r) == r.y + r.h

\* the loop of Game.update choosing the hit with the greatest bottom edge,
\* the first one winning ties
RECURSIVE Lowest(_, _, _)
Lowest(hits, platforms, lowest) ==
    IF hits = <<>> THEN lowest
    ELSE Lowest(Tail(hits), platforms,
                IF bottom(platforms[Head(hits)].rect) > bottom(platforms[lowest].rect)
                THEN Head(hits) ELSE lowest)

\* faulty variant of the landing: it is also evaluated while the player rises
Landing_Rising(g) ==
    LET hits == spritecollide(g.player.rect, g.platforms)
    IN IF hits # <<>>
       THEN LET lowest == Lowest(hits, g.platforms, hits[1])
                r == g.platforms[lowest].rect
            IN IF g.player.pos.y < centery(r) * Scale
               THEN [g EXCEPT !.player.pos.y = (r.y + 1) * Scale,
                              !.player.vel.y = 0,
                              !.player.jumping = FALSE,
                              !.obs.landed = lowest]
               ELSE g
       ELSE g

\* faulty variant of the landing: the feet are put on the platform's bottom edge
Landing_Bottom(g) ==
    IF g.player.vel.y > 0
    THEN LET hits == spritecollide(g.player.rect, g.platforms)
         IN IF hits # <<>>
            THEN LET lowest == Lowest(hits, g.platforms, hits[1])
                     r == g.platforms[lowest].rect
                 IN IF g.player.pos.y < centery(r) * Scale
                    THEN [g EXCEPT !.player.pos.y = bottom(r) * Scale,
                                   !.player.vel.y = 0,
                                   !.player.jumping = FALSE,
                                   !.obs.landed = lowest]
                    ELSE g
            ELSE g
    ELSE g

\* Game.update, player against platforms
Landing(g) ==
    IF g.player.vel.y > 0
    THEN LET hits == spritecollide(g.player.rect, g.platforms)
         IN IF hits # <<>>
            THEN LET lowest == Lowest(hits, g.platforms, hits[1])
                     r == g.platforms[lowest].rect
                 IN IF g.player.pos.y < centery(r) * Scale
                    THEN [g EXCEPT !.player.pos.y = (r.y + 1) * Scale,
                                   !.player.vel.y = 0,
                                   !.player.jumping = FALSE,
                                   !.obs.landed = lowest]
                    ELSE g
            ELSE g
    ELSE g

\* faulty variant of the coin step: the win test is off by one coin
CoinCollisions_OffByOne(g) ==
    LET coin_hits == spritecollide(g.player.rect, g.coins)
        left == SelectSeq(g.coins, LAMBDA c : ~colliderect(g.player.rect, c.rect))
    IN [g EXCEPT !.coins = left,
                 !.score = @ + 10 * Len(coin_hits),
                 !.game_state = IF coin_hits # <<>> /\ Len(left) <= 1 THEN WIN ELSE @,
                 !.obs.taken = Len(coin_hits)]

\* Game.update, player against coins: the overlapping coins leave the group,
\* then each adds 10 and the win condition is tested
CoinCollisions(g) ==
    LET coin_hits == spritecollide(g.player.rect, g.coins)
        left == SelectSeq(g.coins, LAMBDA c : ~colliderect(g.player.rect, c.rect))
    IN [g EXCEPT !.coins = left,
                 !.score = @ + 10 * Len(coin_hits),
                 !.game_state = IF coin_hits # <<>> /\ Len(left) = 0 THEN WIN ELSE @,
                 !.obs.taken = Len(coin_hits)]

\* Game.update, player against enemies
EnemyCollisions(g) ==
    IF spritecollide(g.player.rect, g.enemies) # <<>> THEN player_die(g) ELSE g

\* all_sprites.update(): the player first, then platforms and enemies
SpritesUpdate(g, keys) ==
    LET g1 == Player_update(g, keys)
    IN [g1 EXCEPT !.platforms = [i \in 1..Len(@) |-> Platform_update(@[i])],
                  !.enemies = [i \in 1..Len(@) |-> Enemy_update(@[i])]]

\* Game.update
Game_update(g, keys) ==
    EnemyCollisions(CoinCollisions(Landing(SpritesUpdate(g, keys))))

\* ------------------------------------------------------------ inputs
\* The input collaborator.  In PLAYING it follows one of the input scripts
\* below, tick by tick, and may leave it once per session: one tick carries an
\* arbitrary input (any held keys, up to MaxEvents events of any kind), and the
\* session is followed for MaxOff ticks from that tick, or from the end of the
\* script, with the script's inputs (none after its end).  Outside PLAYING
\* every input is possible in every tick.
MaxEvents == 2
MaxOff == 4
MaxSessions == 2

None == {}
Left == {"L"}
Right == {"R"}

\* A script is a sequence of segments <<held keys, jump on the first tick, ticks>>.
\* ScriptWin collects the five coins of level 1 without meeting an enemy.
ScriptWin ==
    << <<Right, FALSE, 8>>, <<None, FALSE, 132>>, <<Right, FALSE, 24>>,
       <<Right, TRUE, 47>>, <<Right, TRUE, 24>>, <<None, FALSE, 8>>,
       <<Right, FALSE, 1>>, <<Left, FALSE, 16>>, <<Left, TRUE, 44>>,
       <<None, FALSE, 1>>, <<Right, FALSE, 19>>, <<Right, TRUE, 43>>,
       <<Right, TRUE, 45>> >>

\* ScriptDie runs and jumps into the first enemy three times.
ScriptDie ==
    << <<Right, FALSE, 24>>, <<Right, TRUE, 73>>, <<Right, TRUE, 48>>,
       <<Right, TRUE, 32>> >>

\* ScriptBoth takes four coins, walks off the fourth platform through the last
\* of them and falls below the screen, jumps into the first enemy, and then
\* reaches the remaining coin in the tick in which that enemy reaches the player.
ScriptBoth ==
    << <<Right, FALSE, 8>>, <<None, FALSE, 66>>, <<Right, FALSE, 37>>,
       <<Right, TRUE, 30>>, <<None, FALSE, 52>>, <<Left, FALSE, 6>>,
       <<Right, FALSE, 10>>, <<Right, TRUE, 30>>, <<Left, FALSE, 20>>,
       <<Left, TRUE, 45>>, <<None, FALSE, 1>>, <<Right, FALSE, 19>>,
       <<Right, TRUE, 71>>, <<None, FALSE, 61>>, <<Right, FALSE, 6>>,
       <<None, FALSE, 32>>, <<Right, FALSE, 6>>, <<Right, TRUE, 34>>,
       <<None, FALSE, 36>>, <<Right, FALSE, 32>>, <<Right, TRUE, 27>> >>

\* ScriptWrap walks off the first platform to the left and across the left
\* screen edge, then back across the right edge.
ScriptWrap ==
    << <<Left, FALSE, 31>>, <<Right, FALSE, 13>> >>

Segments == << ScriptWin, ScriptDie, ScriptBoth, ScriptWrap >>

RECURSIVE Expand(_)
Expand(segs) ==
    IF segs = <<>> THEN <<>>
    ELSE LET sg == Head(segs)
         IN [i \in 1..sg[3] |-> [keys |-> sg[1], jump |-> sg[2] /\ i = 1]]
            \o Expand(Tail(segs))

Scripts == [i \in 1..Len(Segments) |-> Expand(Segments[i])]

Idle == [keys |-> None, jump |-> FALSE]

\* ------------------------------------------------------------ state
VARIABLES
    running,      \* Game.running
    pc,           \* "run": inside the loop of Game.run; "done": the loop has ended
    game_state,   \* Game.game_state
    score,        \* Game.score
    level,        \* Game.level
    session,      \* new_game has run: player and the sprite groups exist
    player,       \* Game.player
    platforms,    \* Game.platforms, in insertion order
    enemies,      \* Game.enemies
    coins,        \* Game.coins
    nev,          \* events handled so far in the current tick
    inp,          \* the current tick's events against the script: "none", "jump", "free"
    scen,         \* the script of the current session
    ticks,        \* updates run in the current session
    off,          \* ticks since the session left its script (0: on the script)
    sessions,     \* sessions started
    last_death,   \* the update of the current session that last called player_die (0: none)
    obs           \* what the last step did

vars == <<running, pc, game_state, score, level, session, player, platforms,
          enemies, coins, nev, inp, scen, ticks, off, sessions, last_death, obs>>

prog == <<running, game_state, score, level, session, player, platforms, enemies, coins>>
env == <<scen, ticks, off, sessions>>

\* the game as a record, for the operators above
Cur(op) ==
    [game_state |-> game_state, score |-> score, player |-> player,
     platforms |-> platforms, enemies |-> enemies, coins |-> coins, obs |-> Obs(op)]

Store(g) ==
    /\ game_state' = g.game_state
    /\ score' = g.score
    /\ player' = g.player
    /\ platforms' = g.platforms
    /\ enemies' = g.enemies
    /\ coins' = g.coins
    /\ obs' = g.obs

\* Game.__init__ and the main block: MENU, score 0, level 1, no session yet
Init ==
    /\ running = TRUE
    /\ pc = "run"
    /\ game_state = MENU
    /\ score = 0
    /\ level = 1
    /\ session = FALSE
    /\ player = NewPlayer
    /\ platforms = <<>>
    /\ enemies = <<>>
    /\ coins = <<>>
    /\ nev = 0
    /\ inp = "none"
    /\ scen = 1
    /\ ticks = 0
    /\ off = 0
    /\ sessions = 0
    /\ last_death = 0
    /\ obs = NoObs

\* the scripted input of the coming tick
Scripted == IF ticks < Len(Scripts[scen]) THEN Scripts[scen][ticks + 1] ELSE Idle

\* one more event of the current tick is taken from the queue
Event == pc = "run" /\ nev < MaxEvents /\ nev' = nev + 1

\* an event the script does not hold, in PLAYING
Unscripted == off = 0 /\ inp' = "free"

\* ------------------------------------------------------------ Game.events
\* event.type == pygame.QUIT
EventQuit ==
    /\ Event
    /\ IF game_state = PLAYING THEN Unscripted ELSE inp' = inp
    /\ running' = FALSE
    /\ obs' = Obs("quit")
    /\ UNCHANGED <<pc, game_state, score, level, session, player, platforms, enemies,
                   coins, env, last_death>>

\* KEYDOWN K_ESCAPE: no other branch of the handler matches this key
KeyEscape ==
    /\ Event
    /\ IF game_state = PLAYING THEN Unscripted ELSE inp' = inp
    /\ running' = FALSE
    /\ obs' = Obs("escape")
    /\ UNCHANGED <<pc, game_state, score, level, session, player, platforms, enemies,
                   coins, env, last_death>>

\* KEYDOWN K_SPACE or K_UP in PLAYING: Player.jump
KeyJump ==
    /\ Event
    /\ game_state = PLAYING
    /\ \/ inp = "none" /\ Scripted.jump /\ inp' = "jump"
       \/ Unscripted
    /\ Store(Player_jump(Cur("jump")))
    /\ UNCHANGED <<running, pc, level, session, scen, ticks, off, sessions, last_death>>

\* faulty variant of new_game: the player of the previous session is kept
new_game_KeepPlayer(lv) ==
    LET built == create_level(lv)
    IN /\ score' = 0
       /\ game_state' = PLAYING
       /\ player' = IF session THEN player ELSE NewPlayer
       /\ platforms' = built.platforms
       /\ enemies' = built.enemies
       /\ coins' = built.coins
       /\ session' = TRUE

\* faulty variant of new_game: the score of the previous session is kept
new_game_KeepScore(lv) ==
    LET built == create_level(lv)
    IN /\ score' = score
       /\ game_state' = PLAYING
       /\ player' = NewPlayer
       /\ platforms' = built.platforms
       /\ enemies' = built.enemies
       /\ coins' = built.coins
       /\ session' = TRUE

\* Game.new_game
new_game(lv) ==
    LET built == create_level(lv)
    IN /\ score' = 0
       /\ game_state' = PLAYING
       /\ player' = NewPlayer
       /\ platforms' = built.platforms
       /\ enemies' = built.enemies
       /\ coins' = built.coins
       /\ session' = TRUE

\* KEYDOWN K_RETURN in MENU: a new session, played from one of the scripts
KeyReturnMenu ==
    /\ Event
    /\ game_state = MENU
    /\ sessions < MaxSessions
    /\ new_game(level)
    /\ \E sc \in 1..Len(Scripts) : scen' = sc
    /\ ticks' = 0
    /\ off' = 0
    /\ sessions' = sessions + 1
    /\ last_death' = 0
    /\ inp' = "none"
    /\ obs' = Obs("new_game")
    /\ UNCHANGED <<running, pc, level>>

\* faulty variant of the confirm input: it restarts play instead of showing the menu
KeyReturnEnd_Restart ==
    /\ Event
    /\ game_state \in {GAME_OVER, WIN}
    /\ game_state' = PLAYING
    /\ obs' = Obs("to_menu")
    /\ UNCHANGED <<running, pc, score, level, session, player, platforms, enemies,
                   coins, inp, env, last_death>>

\* KEYDOWN K_RETURN in GAME_OVER or WIN
KeyReturnEnd ==
    /\ Event
    /\ game_state \in {GAME_OVER, WIN}
    /\ game_state' = MENU
    /\ obs' = Obs("to_menu")
    /\ UNCHANGED <<running, pc, score, level, session, player, platforms, enemies,
                   coins, inp, env, last_death>>

\* any other event: a key with no binding in the current state (K_RETURN in
\* PLAYING, K_SPACE outside PLAYING, any other key) or an event of another type
OtherEvent ==
    /\ Event
    /\ IF game_state = PLAYING THEN Unscripted ELSE inp' = inp
    /\ obs' = Obs("other")
    /\ UNCHANGED <<running, pc, game_state, score, level, session, player, platforms,
                   enemies, coins, scen, ticks, off, sessions, last_death>>

\* ------------------------------------------------------------ Game.run
\* faulty variant of the loop test: the loop goes on whatever running holds
EndTick_Forever ==
    /\ nev' = 0
    /\ inp' = "none"
    /\ pc' = "run"

\* the end of the loop body: the event queue is empty, the loop tests running
EndTick ==
    /\ nev' = 0
    /\ inp' = "none"
    /\ pc' = IF running THEN "run" ELSE "done"

\* the rest of a tick in PLAYING: Game.update with the keys held, then draw
TickPlaying ==
    /\ pc = "run"
    /\ game_state = PLAYING
    /\ off < MaxOff
    /\ \E keys \in SUBSET {"L", "R"} :
         LET scripted == /\ inp # "free"
                         /\ keys = Scripted.keys
                         /\ Scripted.jump <=> inp = "jump"
             onscript == scripted /\ off = 0 /\ ticks < Len(Scripts[scen])
         IN /\ scripted \/ off = 0
            /\ off' = IF onscript THEN 0 ELSE off + 1
            /\ Store(Game_update(Cur("update"), keys))
    /\ ticks' = ticks + 1
    /\ last_death' = IF obs'.deaths > 0 THEN ticks' ELSE last_death
    /\ EndTick
    /\ UNCHANGED <<running, level, session, scen, sessions>>

\* faulty variant of the tick outside PLAYING: Game.update runs in every state
TickIdle_Update ==
    /\ pc = "run"
    /\ game_state # PLAYING
    /\ EndTick
    /\ IF session
       THEN Store([Game_update(Cur("draw"), {}) EXCEPT !.game_state = game_state])
       ELSE obs' = Obs("draw") /\ UNCHANGED <<game_state, score, player, platforms,
                                               enemies, coins>>
    /\ UNCHANGED <<running, level, session, env, last_death>>

\* the rest of a tick outside PLAYING: draw only
TickIdle ==
    /\ pc = "run"
    /\ game_state # PLAYING
    /\ EndTick
    /\ obs' = Obs("draw")
    /\ UNCHANGED <<prog, env, last_death>>

Next ==
    \/ EventQuit
    \/ KeyEscape
    \/ KeyJump
    \/ KeyReturnMenu
    \/ KeyReturnEnd
    \/ OtherEvent
    \/ TickPlaying
    \/ TickIdle

Spec == Init /\ [][Next]_vars

\* ------------------------------------------------------------ the wrap alone
\* The wrap statements of Player.update applied to a position on its own: the
\* position starts within MaxPast quarter pixels of either screen edge, the
\* edges themselves included, and the wrap is applied again and again.
MaxPast == 30

WrapInputs ==
    {edge + k * (Scale \div 4) : edge \in {0, SCREEN_WIDTH * Scale}, k \in -MaxPast..MaxPast}

InitWrap ==
    /\ running = TRUE
    /\ pc = "wrap"
    /\ game_state = PLAYING
    /\ score = 0
    /\ level = 1
    /\ session = TRUE
    /\ \E x \in WrapInputs : player = [NewPlayer EXCEPT !.pos.x = x]
    /\ platforms = create_level(1).platforms
    /\ enemies = create_level(1).enemies
    /\ coins = create_level(1).coins
    /\ nev = 0
    /\ inp = "none"
    /\ scen = 1
    /\ ticks = 0
    /\ off = 0
    /\ sessions = 1
    /\ last_death = 0
    /\ obs = NoObs

WrapStep ==
    /\ pc = "wrap"
    /\ player' = [player EXCEPT !.pos.x = WrapX(@)]
    /\ obs' = [Obs("wrap") EXCEPT !.x0 = player.pos.x]
    /\ UNCHANGED <<running, pc, game_state, score, level, session, platforms, enemies,
                   coins, nev, inp, env, last_death>>

SpecWrap == InitWrap /\ [][WrapStep]_vars

\* ------------------------------------------------------------ the patrols alone
\* Platform.update and Enemy.update applied to the sprites of level 1 on their
\* own, MaxUpdates times, as all_sprites.update() applies them tick by tick.
MaxUpdates == 210

InitPatrol ==
    /\ running = TRUE
    /\ pc = "patrol"
    /\ game_state = PLAYING
    /\ score = 0
    /\ level = 1
    /\ session = TRUE
    /\ player = NewPlayer
    /\ platforms = create_level(1).platforms
    /\ enemies = create_level(1).enemies
    /\ coins = create_level(1).coins
    /\ nev = 0
    /\ inp = "none"
    /\ scen = 1
    /\ ticks = 0
    /\ off = 0
    /\ sessions = 1
    /\ last_death = 0
    /\ obs = NoObs

PatrolStep ==
    /\ pc = "patrol"
    /\ ticks < MaxUpdates
    /\ platforms' = [i \in 1..Len(platforms) |-> Platform_update(platforms[i])]
    /\ enemies' = [i \in 1..Len(enemies) |-> Enemy_update(enemies[i])]
    /\ ticks' = ticks + 1
    /\ obs' = [Obs("patrol") EXCEPT
                 !.flips = obs.flips + (IF platforms'[7].direction # platforms[7].direction
                                        THEN 1 ELSE 0)]
    /\ UNCHANGED <<running, pc, game_state, score, level, session, player, coins,
                   nev, inp, scen, off, sessions, last_death>>

SpecPatrol == InitPatrol /\ [][PatrolStep]_vars

\* ------------------------------------------------------------ properties
\* C1: game_state changes only along the edges of the state machine:
\* MENU -> PLAYING by the start input (new_game), PLAYING -> WIN and
\* PLAYING -> GAME_OVER by an update, GAME_OVER -> MENU and WIN -> MENU by the
\* confirm input; no event and no tick changes it in any other way.
StateEdges ==
    [][game_state' # game_state =>
         \/ game_state = MENU /\ game_state' = PLAYING /\ obs'.op = "new_game"
         \/ game_state = PLAYING /\ game_state' \in {WIN, GAME_OVER} /\ obs'.op = "update"
         \/ game_state \in {GAME_OVER, WIN} /\ game_state' = MENU /\ obs'.op = "to_menu"]_vars

\* a second session has been won and confirmed: every kind of edge has been taken
StateEdgesWitness ==
    /\ game_state = MENU
    /\ obs.op = "to_menu"
    /\ sessions = 2
    /\ score = 50
    /\ player.lives = 3

\* C2: a PLAYING tick that removes the last remaining coin ends in WIN.
LastCoinWins ==
    (obs.op = "update" /\ obs.taken > 0 /\ coins = <<>>) => game_state = WIN

\* C3: lives never go below 0; player_die runs only with lives >= 1 and takes
\* one life per call; game_state becomes GAME_OVER in exactly those updates
\* whose player_die call takes lives from 1 to 0, and lives are 0 whenever the
\* state is GAME_OVER.
LivesAndGameOver ==
    [][/\ player'.lives >= 0
       /\ game_state' = GAME_OVER => player'.lives = 0
       /\ obs'.op = "update" /\ obs'.deaths > 0 =>
            /\ player.lives >= obs'.deaths
            /\ player'.lives = player.lives - obs'.deaths
            /\ (game_state' = GAME_OVER) <=> (player.lives = 1)
       /\ game_state' = GAME_OVER /\ game_state # GAME_OVER =>
            obs'.op = "update" /\ obs'.deaths > 0 /\ player.lives = 1]_vars

\* an enemy overlap (no fall) has taken the last life
LivesAndGameOverWitness ==
    /\ game_state = GAME_OVER
    /\ obs.op = "update"
    /\ obs.deaths = 1
    /\ ~obs.fell
    /\ player.lives = 0

\* C4: game_state becomes WIN only in an update in which the coin set goes
\* from one coin to none, and the coin set is empty whenever the state is WIN.
WinOnlyWhenEmpty ==
    [][/\ game_state' = WIN => coins' = <<>>
       /\ game_state' = WIN /\ game_state # WIN =>
            /\ obs'.op = "update"
            /\ Len(coins) = 1
            /\ obs'.taken = 1]_vars

\* the update that took the last coin has set WIN
WinOnlyWhenEmptyWitness ==
    /\ game_state = WIN
    /\ obs.op = "update"
    /\ obs.taken = 1
    /\ coins = <<>>

\* the coins of a group, as a set
CoinSet(cs) == {cs[i] : i \in 1..Len(cs)}

\* C5: in a session score = 10 * (initial coin count - coins remaining); apart
\* from the start of a session the score never decreases, coins only leave the
\* coin set, each removal adds exactly 10, and with no coin left the score is
\* 10 * the initial coin count.
ScoreCountsCoins ==
    [][/\ session' => score' = 10 * (Len(coin_list(level')) - Len(coins'))
       /\ session' /\ coins' = <<>> => score' = 10 * Len(coin_list(level'))
       /\ obs'.op # "new_game" =>
            /\ score' >= score
            /\ CoinSet(coins') \subseteq CoinSet(coins)
            /\ Cardinality(CoinSet(coins')) = Len(coins')
            /\ score' - score = 10 * (Len(coins) - Len(coins'))]_vars

\* all five coins of a second session are consumed
ScoreCountsCoinsWitness ==
    /\ session
    /\ sessions = 2
    /\ coins = <<>>
    /\ score = 50

\* C6: every moving platform and every enemy stays within
\* [origin - range, origin + range] after any number of updates.
PatrolWithinRange ==
    /\ \A i \in 1..Len(platforms) :
         platforms[i].is_moving =>
           Abs(platforms[i].rect.x - platforms[i].start_pos) <= platforms[i].move_range
    /\ \A i \in 1..Len(enemies) :
         Abs(enemies[i].rect.x - enemies[i].start_pos) <= enemies[i].patrol_range

\* C7: after exactly 101 updates the moving platform of level 1 (the seventh
\* of the group; origin 650, range 100, speed 1) has flipped its direction
\* exactly once and its x is within [550, 750].
Platform101 ==
    (pc = "patrol" /\ ticks = 101) =>
        /\ platforms[7].start_pos = 650
        /\ obs.flips = 1
        /\ platforms[7].rect.x \in 550..750

\* C8: a jump request is honored exactly when the jumping flag is false and
\* the rect moved down by one overlaps a platform, and then the box at the
\* player's position, moved down by one, overlaps a platform too; honoring
\* sets jumping and vel.y = PLAYER_JUMP and nothing else; a request that is
\* not honored changes nothing of the game.
JumpContract ==
    [][obs'.op = "jump" =>
         LET grounded == JumpProbe(player.rect, platforms) # <<>>
             box == SetMidbottom(player.rect, player.pos)
         IN /\ obs'.honored <=> (~player.jumping /\ grounded)
            /\ obs'.honored =>
                 /\ JumpProbe(box, platforms) # <<>>
                 /\ player' = [player EXCEPT !.jumping = TRUE, !.vel.y = PLAYER_JUMP]
            /\ ~obs'.honored => player' = player
            /\ UNCHANGED <<game_state, score, platforms, enemies, coins>>]_vars

\* a request in the first tick of a session, before any update, is honored
JumpContractWitness ==
    /\ obs.op = "jump"
    /\ obs.honored
    /\ ticks = 0
    /\ player.jumping
    /\ player.vel.y = PLAYER_JUMP

\* C9: when landing resolution fires, the player was descending, its rect
\* overlaps the chosen platform, no overlapping platform has a greater bottom
\* edge, and pos.y was above the chosen platform's centre; the jumping flag is
\* cleared, and unless the player dies later in the same update pos.y is the
\* chosen platform's top + 1 and vel.y is 0.
LandingSnap ==
    (obs.op = "update" /\ obs.landed # 0) =>
        LET r == platforms[obs.landed].rect
        IN /\ obs.vy > 0
           /\ colliderect(player.rect, r)
           /\ \A i \in 1..Len(platforms) :
                colliderect(player.rect, platforms[i].rect) =>
                  bottom(platforms[i].rect) <= bottom(r)
           /\ obs.y0 < centery(r) * Scale
           /\ ~player.jumping
           /\ obs.deaths = 0 =>
                /\ player.pos.y = (r.y + 1) * Scale
                /\ player.pos.y - r.y * Scale <= Scale
                /\ player.vel.y = 0

\* the player has landed on the highest platform of level 1
LandingSnapWitness ==
    /\ obs.op = "update"
    /\ obs.landed = 6
    /\ obs.deaths = 0
    /\ player.pos.y = (platforms[6].rect.y + 1) * Scale
    /\ player.vel.y = 0

\* C10 as stated: exactly SCREEN_WIDTH maps to 0, exactly 0 maps to
\* SCREEN_WIDTH, and wrapping a wrapped position again changes nothing.
WrapEdgesMapped ==
    obs.op = "wrap" =>
        /\ obs.x0 = SCREEN_WIDTH * Scale => player.pos.x = 0
        /\ obs.x0 = 0 => player.pos.x = SCREEN_WIDTH * Scale
        /\ WrapX(player.pos.x) = player.pos.x

\* C10, amended: a position greater than SCREEN_WIDTH maps to 0, a position
\* less than 0 maps to SCREEN_WIDTH, every position from 0 to SCREEN_WIDTH,
\* both edges included, is left as it is, and wrapping a wrapped position
\* again changes nothing.
WrapStrict ==
    obs.op = "wrap" =>
        /\ obs.x0 > SCREEN_WIDTH * Scale => player.pos.x = 0
        /\ obs.x0 < 0 => player.pos.x = SCREEN_WIDTH * Scale
        /\ obs.x0 \in 0..(SCREEN_WIDTH * Scale) => player.pos.x = obs.x0
        /\ WrapX(player.pos.x) = player.pos.x

\* a position of exactly SCREEN_WIDTH has been through the wrap and is unchanged
WrapStrictWitness ==
    /\ obs.op = "wrap"
    /\ obs.x0 = SCREEN_WIDTH * Scale
    /\ player.pos.x = SCREEN_WIDTH * Scale

\* C11: every start input accepted in MENU, the first of a run or one after a
\* session that ended in GAME_OVER or WIN, gives PLAYING, score 0, level 1, a
\* player with 3 lives at the start position with zero velocity and jumping
\* false, and the whole layout of level 1: 5 coins at the places of the table,
\* 2 enemies and the moving platform at their origins with direction +1.
FreshSession ==
    [][obs'.op = "new_game" =>
         /\ game_state = MENU
         /\ game_state' = PLAYING
         /\ score' = 0
         /\ level' = 1
         /\ player'.lives = 3
         /\ player'.pos = Vec(100 * Scale, (SCREEN_HEIGHT - 200) * Scale)
         /\ player'.vel = Vec(0, 0)
         /\ ~player'.jumping
         /\ Len(coins') = 5
         /\ \A i \in 1..5 : coins'[i].rect = Rect(coin_list(1)[i][1], coin_list(1)[i][2], 15, 15)
         /\ Len(enemies') = 2
         /\ \A i \in 1..2 : /\ enemies'[i].rect.x = enemy_list(1)[i][1]
                            /\ enemies'[i].start_pos = enemy_list(1)[i][1]
                            /\ enemies'[i].direction = 1
         /\ Len(platforms') = 7
         /\ \A i \in 1..7 : /\ platforms'[i].rect.x = platforms'[i].start_pos
                            /\ platforms'[i].direction = 1
         /\ platforms'[7].rect.x = 650]_vars

\* a second session has just been started, after the first one ended
FreshSessionWitness ==
    /\ obs.op = "new_game"
    /\ sessions = 2
    /\ game_state = PLAYING
    /\ score = 0
    /\ player.lives = 3
    /\ Len(coins) = 5

\* C12: a step taken in MENU, GAME_OVER or WIN that does not start a session
\* (an event other than the start input, or the rest of the tick) leaves the
\* score, the player with its lives, position and velocity, the coins, the
\* platforms and the enemies as they are, and no update and no jump runs
\* in those states.
IdleOutsidePlaying ==
    [][game_state # PLAYING =>
         /\ obs'.op \notin {"update", "jump"}
         /\ game_state' # PLAYING =>
              UNCHANGED <<score, player, coins, platforms, enemies>>]_vars

\* a whole tick has passed in GAME_OVER with the session's sprites in place
IdleOutsidePlayingWitness ==
    /\ game_state = GAME_OVER
    /\ obs.op = "draw"
    /\ pc = "run"
    /\ Len(enemies) = 2

\* C13: an update in which the player dies with more than one life left takes
\* exactly one life, leaves the player at (100, SCREEN_HEIGHT - 200) with
\* velocity (0, 0), and leaves the rest as the same update leaves it without a
\* death: the state PLAYING (WIN if the update took the last coin), the score
\* and the coin set changed by the coins taken only, and every platform and
\* enemy moved by its own update only.
NonFatalDeath ==
    [][obs'.op = "update" /\ obs'.deaths > 0 /\ player.lives > 1 =>
         /\ player'.lives = player.lives - 1
         /\ player'.pos = Vec(100 * Scale, (SCREEN_HEIGHT - 200) * Scale)
         /\ player'.vel = Vec(0, 0)
         /\ game_state' = IF obs'.taken > 0 /\ coins' = <<>> THEN WIN ELSE PLAYING
         /\ score' = score + 10 * obs'.taken
         /\ Len(coins') = Len(coins) - obs'.taken
         /\ CoinSet(coins') \subseteq CoinSet(coins)
         /\ platforms' = [i \in 1..Len(platforms) |-> Platform_update(platforms[i])]
         /\ enemies' = [i \in 1..Len(enemies) |-> Enemy_update(enemies[i])]]_vars

\* the first life has been lost with coins already taken, and the player is
\* back at the start position
NonFatalDeathWitness ==
    /\ obs.op = "update"
    /\ obs.deaths = 1
    /\ player.lives = 2
    /\ player.pos = StartPos
    /\ player.vel = Vec(0, 0)
    /\ score > 0
    /\ game_state = PLAYING

\* C14: in every game state a quit input (window close or Escape) clears
\* running; no later step sets it again; with running cleared the rest of the
\* current tick (the update in PLAYING, the draw) ends the loop; and once the
\* loop has ended no event is polled and no update or draw is executed.
QuitEndsLoop ==
    [][/\ pc = "run"
       /\ obs'.op \in {"quit", "escape"} => ~running'
       /\ ~running => ~running'
       /\ obs'.op \in {"update", "draw"} =>
            pc' = IF running THEN "run" ELSE "done"]_vars

\* a quit input arrived in PLAYING: the tick's update has run and the loop has ended
QuitEndsLoopWitness ==
    /\ pc = "done"
    /\ ~running
    /\ obs.op = "update"

\* C15: in an update without a death in which the player's rect overlaps a
\* platform while the vertical velocity after integration is <= 0, or while
\* pos.y is not above the centre of the overlapping platform with the greatest
\* bottom edge, no landing takes place: the position and the vertical velocity
\* are the integrated ones and the jumping flag is as before the update.
OneSidedCollision ==
    [][obs'.op = "update" /\ obs'.deaths = 0 =>
         LET hits == spritecollide(player'.rect, platforms')
         IN hits # <<>> =>
              LET r == platforms'[Lowest(hits, platforms', hits[1])].rect
              IN (obs'.vy <= 0 \/ obs'.y0 >= centery(r) * Scale) =>
                   /\ obs'.landed = 0
                   /\ player'.pos = Vec(WrapX(obs'.x0), obs'.y0)
                   /\ player'.vel.y = obs'.vy
                   /\ player'.jumping = player.jumping]_vars

\* the player rises through a platform it overlaps from below its centre line up
OneSidedCollisionWitness ==
    /\ obs.op = "update"
    /\ obs.deaths = 0
    /\ obs.vy < 0
    /\ obs.landed = 0
    /\ spritecollide(player.rect, platforms) # <<>>
    /\ player.jumping
    /\ player.pos.y = obs.y0

\* C16: in level 1 a descending player always lands on the ground platform:
\* after no update is the player descending with its feet at or below the
\* ground's vertical centre without having landed, and the fall check of
\* Player.update (rect.top > SCREEN_HEIGHT) never fires.
NeverThroughGround ==
    obs.op = "update" =>
        /\ ~obs.fell
        /\ (obs.vy > 0 /\ obs.y0 >= centery(platforms[1].rect) * Scale) => obs.landed # 0

\* C17: an update calls player_die at most once (a fall death and an enemy
\* death never come together) and takes as many lives as it calls it; lives
\* change in no other step of a session; and no update that follows an update
\* with a death calls player_die: there the player's rect, set from the
\* respawn position, overlaps no enemy.
OneLifePerContact ==
    [][/\ obs'.op = "update" =>
            /\ obs'.deaths <= 1
            /\ player'.lives = player.lives - obs'.deaths
            /\ obs'.fell => spritecollide(player'.rect, enemies') = <<>>
            /\ (last_death > 0 /\ ticks = last_death) =>
                 /\ obs'.deaths = 0
                 /\ spritecollide(player'.rect, enemies') = <<>>
       /\ obs'.op \notin {"update", "new_game"} => player'.lives = player.lives]_vars

\* the update after a non-fatal death has run without another death
OneLifePerContactWitness ==
    /\ obs.op = "update"
    /\ last_death > 0
    /\ ticks = last_death + 1
    /\ obs.deaths = 0
    /\ player.lives = 2
    /\ game_state = PLAYING

\* C18: a jump request is honored only with the jumping flag false and leaves
\* it true, and within a session the flag goes from true to false only in an
\* update whose landing resolution fired; so a landing lies between any two
\* honored requests, whatever deaths, respawns and further jump events of the
\* same tick come between them.
NoDoubleJump ==
    [][/\ obs'.op = "jump" /\ obs'.honored => ~player.jumping /\ player'.jumping
       /\ obs'.op = "jump" /\ player.jumping => ~obs'.honored /\ player' = player
       /\ player.jumping /\ ~player'.jumping =>
            \/ obs'.op = "update" /\ obs'.landed # 0
            \/ obs'.op = "new_game"]_vars

\* a jump request after a respawn in mid-jump is refused: the flag is still set
NoDoubleJumpWitness ==
    /\ obs.op = "jump"
    /\ ~obs.honored
    /\ obs.was_jumping
    /\ player.pos = StartPos
    /\ player.lives < 3
    /\ last_death = ticks

\* C19: from new_game on, after every Player.update and every player_die,
\* 0 <= pos.x <= SCREEN_WIDTH, whatever was held, wrapped or respawned.
PosXOnScreen ==
    session => /\ player.pos.x >= 0
               /\ player.pos.x <= SCREEN_WIDTH * Scale

\* the position has crossed the left edge and has been put on the right edge
PosXOnScreenWitness ==
    /\ obs.op = "update"
    /\ obs.x0 < 0
    /\ player.pos.x = SCREEN_WIDTH * Scale

=============================================================================
